---------------------------- MODULE Spec2Model ----------------------------
(***************************************************************************)
(* Authentication core of the job-tracker backend: the register, login and *)
(* /me routes, the validation gate, the identity middlewares (authenticate *)
(* and optionalAuth), the token codec and the error translator.            *)
(*                                                                         *)
(* Every request is a little process.  An await in the source (a store     *)
(* query, a bcrypt call) ends an atomic step: other requests, the clock    *)
(* and the store's other clients may act in between.                       *)
(***************************************************************************)
EXTENDS Integers, Sequences, FiniteSets, TLC

\* ------------------------------------------------------------------ bounds
\* Number of requests the clients send in one behaviour.
MaxReq == 2
\* Last clock value (seconds, scaled).
MaxTime == 1

\* --------------------------------------------------------------- constants
\* JWT_EXPIRES_IN, the token lifetime (default "7d"), in clock units.
ExpiresIn == 1
\* bcrypt cost factor of register.
BcryptRounds == 12

JwtSecret == "server-secret"
OtherSecret == "attacker-secret"

\* ------------------------------------------------------------------ strings
\* The characters of the strings the clients send.
Chars(s) ==
  CASE s = "a@b.com" -> <<"a", "@", "b", ".", "c", "o", "m">>
    [] s = "c@d.com" -> <<"c", "@", "d", ".", "c", "o", "m">>
    [] s = "not-an-email" -> <<"n", "o", "t", "-", "a", "n", "-", "e", "m", "a", "i", "l">>
    [] s = "Test1234" -> <<"T", "e", "s", "t", "1", "2", "3", "4">>
    [] s = "Passw0rd" -> <<"P", "a", "s", "s", "w", "0", "r", "d">>
    [] s = "short" -> <<"s", "h", "o", "r", "t">>
    [] s = "Test123" -> <<"T", "e", "s", "t", "1", "2", "3">>
    [] s = "test1234" -> <<"t", "e", "s", "t", "1", "2", "3", "4">>
    [] s = "TEST1234" -> <<"T", "E", "S", "T", "1", "2", "3", "4">>
    [] s = "Testtest" -> <<"T", "e", "s", "t", "t", "e", "s", "t">>
    [] s = "Test12345" -> <<"T", "e", "s", "t", "1", "2", "3", "4", "5">>
    [] s = "Te$t123!" -> <<"T", "e", "$", "t", "1", "2", "3", "!">>
    [] s = "12345678" -> <<"1", "2", "3", "4", "5", "6", "7", "8">>
    [] s = "!!!!!!!!" -> <<"!", "!", "!", "!", "!", "!", "!", "!">>
    [] OTHER -> << >>

UpperChars == {"E", "P", "S", "T"}
LowerChars == {"a", "b", "c", "d", "e", "h", "i", "l", "m", "n", "o", "r", "s", "t", "w"}
DigitChars == {"0", "1", "2", "3", "4", "5", "6", "7", "8"}

\* The bodies the clients send.
Bodies ==
  {[email |-> "a@b.com", password |-> "Test1234"],
   [email |-> "a@b.com", password |-> "Passw0rd"],
   [email |-> "a@b.com", password |-> "short"],
   [email |-> "c@d.com", password |-> "Test1234"],
   [email |-> "not-an-email", password |-> "short"]}

\* The passwords put to the register schema.
Passwords ==
  {"", "short", "Test123", "test1234", "TEST1234", "Testtest", "Test1234",
   "Passw0rd", "Test12345", "Te$t123!", "12345678", "!!!!!!!!"}

\* z.string().email(): one "@", a non-empty local part, a domain with a dot
\* that has a label before it and at least two letters after it.
IsEmail(s) ==
  LET c == Chars(s)
      at == {i \in 1..Len(c) : c[i] = "@"}
      dots == {i \in 1..Len(c) : c[i] = "."}
  IN  /\ Cardinality(at) = 1
      /\ LET a == CHOOSE i \in at : TRUE
         IN  /\ a > 1
             /\ \E d \in dots :
                  /\ d > a + 1
                  /\ Len(c) - d >= 2
                  /\ \A k \in (d + 1)..Len(c) : c[k] \in LowerChars \cup UpperChars

Matches(s, class) == \E i \in 1..Len(Chars(s)) : Chars(s)[i] \in class


\* ------------------------------------------------------------------- errors
\* An error value: its class, and the fields the handlers read.
MkError(cls, statusCode, message) ==
  [cls |-> cls, statusCode |-> statusCode, message |-> message,
   code |-> "", target |-> "", issues |-> << >>]

NoError == MkError("none", 0, "")

\* shared/errors/AppError: domain errors carrying their own HTTP status.
ConflictError(message) == MkError("ConflictError", 409, message)
UnauthorizedError(message) == MkError("UnauthorizedError", 401, message)

\* Errors of the libraries.
JsonWebTokenError(message) == MkError("JsonWebTokenError", 0, message)
TokenExpiredError(message) == MkError("TokenExpiredError", 0, message)
PlainError(message) == MkError("Error", 0, message)
ZodError(issues) ==
  [MkError("ZodError", 0, "zod issues") EXCEPT !.issues = issues]
PrismaKnownRequestError(code, target) ==
  [MkError("PrismaClientKnownRequestError", 0, "prisma diagnostic")
     EXCEPT !.code = code, !.target = target]

\* The prototype chain of each error class (x instanceof C).
Ancestors(cls) ==
  CASE cls \in {"ConflictError", "UnauthorizedError"} -> {cls, "AppError", "Error"}
    [] cls = "TokenExpiredError" -> {cls, "JsonWebTokenError", "Error"}
    [] cls \in {"JsonWebTokenError", "ZodError", "PrismaClientKnownRequestError"} ->
         {cls, "Error"}
    [] OTHER -> {cls}

InstanceOf(err, cls) == cls \in Ancestors(err.cls)

\* ------------------------------------------------------------- token codec
NoToken ==
  [kind |-> "none", userId |-> 0, email |-> "", iat |-> 0, exp |-> 0,
   sig |-> <<"", 0, "", 0, 0>>]

\* A Bearer credential that is not a JWT at all.
GarbageToken == [NoToken EXCEPT !.kind = "garbage"]

\* The signature binds the key to the payload.
Mac(secret, userId, email, iat, exp) == <<secret, userId, email, iat, exp>>

\* jwt.sign(payload, secret, {expiresIn}) at clock value t.
JwtSign(userId, email, secret, expiresIn, t) ==
  [kind |-> "jwt", userId |-> userId, email |-> email, iat |-> t,
   exp |-> t + expiresIn,
   sig |-> Mac(secret, userId, email, t, t + expiresIn)]

\* jwt.verify(token, secret) at clock value t: structure, then signature,
\* then expiry.
JwtVerify(token, secret, t) ==
  IF token.kind # "jwt"
  THEN [ok |-> FALSE, err |-> JsonWebTokenError("jwt malformed"), payload |-> NoToken]
  ELSE IF token.sig # Mac(secret, token.userId, token.email, token.iat, token.exp)
  THEN [ok |-> FALSE, err |-> JsonWebTokenError("invalid signature"), payload |-> NoToken]
  ELSE IF t >= token.exp
  THEN [ok |-> FALSE, err |-> TokenExpiredError("jwt expired"), payload |-> NoToken]
  ELSE [ok |-> TRUE, err |-> NoError, payload |-> token]

\* Faulty variant: the token is signed with a lifetime of zero.
generateTokenNoLifetime(userId, email, t) == JwtSign(userId, email, JwtSecret, 0, t)

\* AuthService.generateToken
generateToken(userId, email, t) == JwtSign(userId, email, JwtSecret, ExpiresIn, t)

\* ------------------------------------------------------- credential hasher
\* bcrypt.hash(plaintext, rounds) with the salt it drew.
BcryptHash(plaintext, rounds, salt) ==
  [alg |-> "bcrypt", rounds |-> rounds, salt |-> salt, of |-> plaintext]

\* Faulty variant: a comparison that looks at the digest's parameters only.
BcryptCompareParams(plaintext, digest) ==
  BcryptHash(digest.of, digest.rounds, digest.salt) = digest

\* bcrypt.compare(plaintext, digest): rehash with the digest's salt and cost.
BcryptCompare(plaintext, digest) ==
  BcryptHash(plaintext, digest.rounds, digest.salt) = digest


\* --------------------------------------------------------------- user store
\* A stored user (the User table).
NoUser ==
  [id |-> 0, email |-> "", password |-> BcryptHash("", 0, 0),
   firstName |-> "null", lastName |-> "null", phone |-> "null", createdAt |-> 0]

\* prisma's select: the named fields of a record, nothing else.
Select(u, fields) == [f \in fields |-> u[f]]

NoData == Select(NoUser, {})

\* ---------------------------------------------------------- validation gate
Issue(path, message) == [path |-> path, message |-> message]

\* The checks of a z.string() run one after the other; each adds its issue.
Check(ok, path, message) == IF ok THEN << >> ELSE <<Issue(path, message)>>

\* Faulty variant: the register schema without its digit rule.
RegisterSchemaNoDigit(body) ==
  Check(IsEmail(body.email), <<"body", "email">>, "Invalid email address")
  \o Check(Len(Chars(body.password)) >= 8, <<"body", "password">>,
           "Password must be at least 8 characters")
  \o Check(Matches(body.password, UpperChars), <<"body", "password">>,
           "Password must contain at least one uppercase letter")
  \o Check(Matches(body.password, LowerChars), <<"body", "password">>,
           "Password must contain at least one lowercase letter")

\* RegisterSchema applied to {body, query, params}.
RegisterSchema(body) ==
  Check(IsEmail(body.email), <<"body", "email">>, "Invalid email address")
  \o Check(Len(Chars(body.password)) >= 8, <<"body", "password">>,
           "Password must be at least 8 characters")
  \o Check(Matches(body.password, UpperChars), <<"body", "password">>,
           "Password must contain at least one uppercase letter")
  \o Check(Matches(body.password, LowerChars), <<"body", "password">>,
           "Password must contain at least one lowercase letter")
  \o Check(Matches(body.password, DigitChars), <<"body", "password">>,
           "Password must contain at least one number")

\* LoginSchema applied to {body, query, params}.
LoginSchema(body) ==
  Check(IsEmail(body.email), <<"body", "email">>, "Invalid email address")
  \o Check(Len(Chars(body.password)) >= 1, <<"body", "password">>,
           "Password is required")

\* ---------------------------------------------------------- error translator
\* Faulty variant: only the last segment of the path is kept.
JoinLast(path) == IF path = << >> THEN "" ELSE path[Len(path)]

RECURSIVE JoinDot(_)
\* path.join(".")
JoinDot(path) ==
  IF path = << >> THEN ""
  ELSE IF Len(path) = 1 THEN path[1]
  ELSE path[1] \o "." \o JoinDot(Tail(path))

NoResp ==
  [keys |-> {}, status |-> 0, success |-> FALSE, message |-> "",
   errors |-> << >>, user |-> NoData, token |-> NoToken, stack |-> "",
   health |-> [status |-> "", database |-> "", environment |-> "", timestamp |-> 0]]

NoLog ==
  [written |-> FALSE, message |-> "", stack |-> "", statusCode |-> 0, path |-> "",
   method |-> ""]

\* Faulty variant: the not-found code falls through to the default.
handlePrismaErrorNoNotFound(err) ==
  CASE err.code = "P2002" -> "Duplicate field value: " \o err.target
    [] err.code = "P2014" -> "Invalid ID"
    [] err.code = "P2003" -> "Invalid input data"
    [] OTHER -> "Database error occurred"

\* handlePrismaError: the message for each code of the store.
handlePrismaError(err) ==
  CASE err.code = "P2002" -> "Duplicate field value: " \o err.target
    [] err.code = "P2014" -> "Invalid ID"
    [] err.code = "P2003" -> "Invalid input data"
    [] err.code = "P2025" -> "Record not found"
    [] OTHER -> "Database error occurred"

\* Faulty variant: the validation branch is missing, a ZodError is unknown.
TranslateNoValidation(err) ==
  IF InstanceOf(err, "AppError")
  THEN [statusCode |-> err.statusCode, message |-> err.message, errors |-> << >>,
        hasErrors |-> FALSE]
  ELSE IF InstanceOf(err, "PrismaClientKnownRequestError")
  THEN [statusCode |-> 400, message |-> handlePrismaError(err), errors |-> << >>,
        hasErrors |-> FALSE]
  ELSE IF err.cls = "JsonWebTokenError"
  THEN [statusCode |-> 401, message |-> "Invalid token", errors |-> << >>,
        hasErrors |-> FALSE]
  ELSE IF err.cls = "TokenExpiredError"
  THEN [statusCode |-> 401, message |-> "Token expired", errors |-> << >>,
        hasErrors |-> FALSE]
  ELSE [statusCode |-> 500,
        message |-> IF err.message # "" THEN err.message ELSE "Internal server error",
        errors |-> << >>, hasErrors |-> FALSE]

\* The first matching kind decides status, message and errors.
Translate(err) ==
  IF InstanceOf(err, "AppError")
  THEN [statusCode |-> err.statusCode, message |-> err.message, errors |-> << >>,
        hasErrors |-> FALSE]
  ELSE IF InstanceOf(err, "PrismaClientKnownRequestError")
  THEN [statusCode |-> 400, message |-> handlePrismaError(err), errors |-> << >>,
        hasErrors |-> FALSE]
  ELSE IF InstanceOf(err, "ZodError")
  THEN [statusCode |-> 422, message |-> "Validation failed",
        errors |-> [i \in 1..Len(err.issues) |->
                      [field |-> JoinDot(err.issues[i].path),
                       message |-> err.issues[i].message]],
        hasErrors |-> TRUE]
  ELSE IF err.cls = "JsonWebTokenError"
  THEN [statusCode |-> 401, message |-> "Invalid token", errors |-> << >>,
        hasErrors |-> FALSE]
  ELSE IF err.cls = "TokenExpiredError"
  THEN [statusCode |-> 401, message |-> "Token expired", errors |-> << >>,
        hasErrors |-> FALSE]
  ELSE [statusCode |-> 500,
        message |-> IF err.message # "" THEN err.message ELSE "Internal server error",
        errors |-> << >>, hasErrors |-> FALSE]

\* err.stack: the error's name and message, then the frames.
Stack(err) == err.cls \o ": " \o err.message \o " at ..."

\* Faulty variant: errorHandler answers without writing the log record.
errorHandlerSilent(err, method, path, env) ==
  LET t == Translate(err)
  IN  [log |-> NoLog,
       resp |-> [NoResp EXCEPT
                   !.keys = {"success", "message"}
                            \cup (IF t.hasErrors THEN {"errors"} ELSE {})
                            \cup (IF env = "development" THEN {"stack"} ELSE {}),
                   !.status = t.statusCode,
                   !.message = t.message,
                   !.errors = t.errors,
                   !.stack = IF env = "development" THEN Stack(err) ELSE ""]]

\* errorHandler: the log record, then the response.
errorHandler(err, method, path, env) ==
  LET t == Translate(err)
  IN  [log |-> [written |-> TRUE, message |-> err.message, stack |-> Stack(err),
                statusCode |-> t.statusCode, path |-> path, method |-> method],
       resp |-> [NoResp EXCEPT
                   !.keys = {"success", "message"}
                            \cup (IF t.hasErrors THEN {"errors"} ELSE {})
                            \cup (IF env = "development" THEN {"stack"} ELSE {}),
                   !.status = t.statusCode,
                   !.message = t.message,
                   !.errors = t.errors,
                   !.stack = IF env = "development" THEN Stack(err) ELSE ""]]


\* -------------------------------------------------------------------- state
VARIABLES
  users,    \* the User table of the store
  nextId,   \* the next id the store hands out
  now,      \* the clock
  nodeEnv,  \* process.env.NODE_ENV
  reqs,     \* the requests: input, position, locals, outcome
  proc      \* the process: startup, HTTP server, store connection, exit

vars == <<users, nextId, now, nodeEnv, reqs, proc>>

\* process.exit has not been called.
Running == -1

\* The process before startServer has got anywhere.
Starting ==
  [phase |-> "connecting", db |-> "none", exit |-> Running, signal |-> "",
   triggers |-> 0, closeCbs |-> 0, timers |-> 0, forced |-> FALSE]

\* The process once startServer has returned: connected and listening.
Serving == [Starting EXCEPT !.phase = "listening", !.db = "connected"]

Req == 1..MaxReq
NodeEnvs == {"unset", "development"}
Routes == {"register", "login", "me", "opt"}

NoHeader == [present |-> FALSE, prefix |-> "", tok |-> NoToken]
NoIdentity == [attached |-> FALSE, id |-> 0, email |-> ""]

NoReq ==
  [route |-> "none", body |-> [email |-> "", password |-> ""], header |-> NoHeader,
   pc |-> "idle", found |-> NoUser, decoded |-> NoToken, identity |-> NoIdentity,
   err |-> NoError, resp |-> NoResp, log |-> NoLog, ops |-> << >>, at |-> 0]

Method(route) == IF route \in {"register", "login"} THEN "POST" ELSE "GET"
Path(route) == "/api/auth/" \o route

\* What the store answers to findUnique.
FindByEmail(email) ==
  IF \E u \in users : u.email = email
  THEN CHOOSE u \in users : u.email = email
  ELSE NoUser

\* Faulty variant: a lookup that ignores the id.
FindByIdAny(id) == IF users # {} THEN CHOOSE u \in users : TRUE ELSE NoUser

FindById(id) ==
  IF \E u \in users : u.id = id
  THEN CHOOSE u \in users : u.id = id
  ELSE NoUser

Exists(u) == u.id # 0

\* next(err): the error reaches errorHandler, which logs and answers.
Fail(r, err) ==
  LET h == errorHandler(err, Method(r.route), Path(r.route), nodeEnv)
  IN  [r EXCEPT !.pc = "done", !.err = err, !.log = h.log, !.resp = h.resp,
                !.ops = @ \o <<"next(err)", "log", "send">>]

\* res.status(status).json({success: true, ...})
Success(r, status, keys, message, user, token) ==
  [r EXCEPT !.pc = "done",
            !.resp = [NoResp EXCEPT !.keys = keys, !.status = status,
                                    !.success = TRUE, !.message = message,
                                    !.user = user, !.token = token],
            !.ops = @ \o <<"send">>]

\* ------------------------------------------------------------------ clients
\* Tokens a client may hold: those the server handed out.
KnownTokens ==
  {reqs[j].resp.token : j \in {k \in Req : reqs[k].resp.token.kind = "jwt"}}

\* A token signed with a key that is not the server's.
ForgedToken == JwtSign(1, "a@b.com", OtherSecret, MaxTime + 1, 0)

Headers ==
  {NoHeader}
  \cup {[present |-> TRUE, prefix |-> "Bearer ", tok |-> t] :
          t \in KnownTokens \cup {ForgedToken, GarbageToken}}
  \cup {[present |-> TRUE, prefix |-> "Basic ", tok |-> t] :
          t \in KnownTokens \cup {GarbageToken}}

\* ---------------------------------------------------------- validation gate
\* Faulty variant: the gate calls next() whatever the schema says.
validatePassing(r) ==
  [r EXCEPT !.pc = "find", !.ops = @ \o <<"validate", "next", r.route>>]

\* validate(schema): next() when the schema accepts, next(zodError) otherwise.
validate(r) ==
  LET issues == IF r.route = "register" THEN RegisterSchema(r.body)
                ELSE LoginSchema(r.body)
  IN  IF issues = << >>
      THEN [r EXCEPT !.pc = "find", !.ops = @ \o <<"validate", "next", r.route>>]
      ELSE Fail([r EXCEPT !.ops = @ \o <<"validate">>], ZodError(issues))


\* -------------------------------------------------------------- auth service
\* Faulty variant: the select of register and login also returns the password hash.
AuthUserFieldsWithHash == {"id", "email", "firstName", "lastName", "password"}

\* Faulty variant: getProfile selects the password hash too.
ProfileFieldsWithHash ==
  {"id", "email", "firstName", "lastName", "phone", "createdAt", "password"}

\* The fields register and login return of a user.
AuthUserFields == {"id", "email", "firstName", "lastName"}
\* The fields getProfile selects.
ProfileFields == {"id", "email", "firstName", "lastName", "phone", "createdAt"}

\* Faulty variant: register without its existence check.
registerCheckSkipped(r) == [r EXCEPT !.pc = "create", !.ops = @ \o <<"findUnique">>]

\* AuthService.register up to the second await: the existence check.
registerCheck(r) ==
  LET existingUser == FindByEmail(r.body.email)
  IN  IF Exists(existingUser)
      THEN Fail([r EXCEPT !.ops = @ \o <<"findUnique">>],
                ConflictError("User with this email already exists"))
      ELSE [r EXCEPT !.pc = "create", !.ops = @ \o <<"findUnique">>]

RegisterCheck(i) ==
  /\ reqs[i].pc = "find"
  /\ reqs[i].route = "register"
  /\ reqs' = [reqs EXCEPT ![i] = registerCheck(reqs[i])]
  /\ UNCHANGED <<users, nextId, now, nodeEnv, proc>>

\* The salt bcrypt draws: a new one for every hash.
FreshSalt == nextId

\* Faulty variant: the row is inserted without the email of the request.
NewUserNoEmail(r, hashedPassword) ==
  [NoUser EXCEPT !.id = nextId, !.password = hashedPassword, !.createdAt = now]

\* The row prisma.user.create inserts.
NewUser(r, hashedPassword) ==
  [NoUser EXCEPT !.id = nextId, !.email = r.body.email,
                 !.password = hashedPassword, !.createdAt = now]

\* What register returns for the created user, and the controller's 201.
registerResult(r, user) ==
  Success([r EXCEPT !.at = now, !.ops = @ \o <<"hash", "create", "sign">>],
          201, {"success", "message", "data"}, "User registered successfully",
          Select(user, AuthUserFields), generateToken(user.id, user.email, now))

\* AuthService.register from the hash on: hash, insert, token.  The store
\* refuses a second row with the same email (unique constraint, P2002).
RegisterCreate(i) ==
  /\ reqs[i].pc = "create"
  /\ LET r == reqs[i]
         hashedPassword == BcryptHash(r.body.password, BcryptRounds, FreshSalt)
         user == NewUser(r, hashedPassword)
     IN  IF \E u \in users : u.email = r.body.email
         THEN /\ reqs' = [reqs EXCEPT ![i] =
                            Fail([r EXCEPT !.ops = @ \o <<"hash", "create">>],
                                 PrismaKnownRequestError("P2002", "email"))]
              /\ UNCHANGED <<users, nextId>>
         ELSE /\ users' = users \cup {user}
              /\ nextId' = nextId + 1
              /\ reqs' = [reqs EXCEPT ![i] = registerResult(r, user)]
  /\ UNCHANGED <<now, nodeEnv, proc>>

\* Faulty variant: login writes its own 401 when the email is unknown.
loginFindAnswering(r) ==
  LET user == FindByEmail(r.body.email)
  IN  IF ~Exists(user)
      THEN [r EXCEPT !.pc = "done",
                     !.resp = [NoResp EXCEPT !.keys = {"success", "message"},
                                             !.status = 401,
                                             !.message = "Invalid credentials"],
                     !.ops = @ \o <<"findUnique", "send">>]
      ELSE [r EXCEPT !.pc = "compare", !.found = user,
                     !.ops = @ \o <<"findUnique">>]

\* Faulty variant: login tells an unknown email apart from a wrong password.
loginFindTelling(r) ==
  LET user == FindByEmail(r.body.email)
  IN  IF ~Exists(user)
      THEN Fail([r EXCEPT !.ops = @ \o <<"findUnique">>],
                UnauthorizedError("User not found"))
      ELSE [r EXCEPT !.pc = "compare", !.found = user,
                     !.ops = @ \o <<"findUnique">>]

\* AuthService.login up to the second await: the lookup by email.
loginFind(r) ==
  LET user == FindByEmail(r.body.email)
  IN  IF ~Exists(user)
      THEN Fail([r EXCEPT !.ops = @ \o <<"findUnique">>],
                UnauthorizedError("Invalid credentials"))
      ELSE [r EXCEPT !.pc = "compare", !.found = user,
                     !.ops = @ \o <<"findUnique">>]

LoginFind(i) ==
  /\ reqs[i].pc = "find"
  /\ reqs[i].route = "login"
  /\ reqs' = [reqs EXCEPT ![i] = loginFind(reqs[i])]
  /\ UNCHANGED <<users, nextId, now, nodeEnv, proc>>

\* AuthService.login from the comparison on, and the controller's 200.
loginCompare(r) ==
  LET user == r.found
      isPasswordValid == BcryptCompare(r.body.password, user.password)
  IN  IF ~isPasswordValid
      THEN Fail([r EXCEPT !.ops = @ \o <<"compare">>],
                UnauthorizedError("Invalid credentials"))
      ELSE Success([r EXCEPT !.at = now, !.ops = @ \o <<"compare", "sign">>],
                   200, {"success", "message", "data"}, "Login successful",
                   Select(user, AuthUserFields),
                   generateToken(user.id, user.email, now))

LoginCompare(i) ==
  /\ reqs[i].pc = "compare"
  /\ reqs' = [reqs EXCEPT ![i] = loginCompare(reqs[i])]
  /\ UNCHANGED <<users, nextId, now, nodeEnv, proc>>

\* AuthService.getProfile and the 200 of getMe.
getProfile(r) ==
  LET user == FindById(r.identity.id)
  IN  IF ~Exists(user)
      THEN Fail([r EXCEPT !.ops = @ \o <<"findUnique">>],
                UnauthorizedError("User not found"))
      ELSE Success([r EXCEPT !.ops = @ \o <<"findUnique">>],
                   200, {"success", "data"}, "", Select(user, ProfileFields), NoToken)

GetProfile(i) ==
  /\ reqs[i].pc = "profile"
  /\ reqs' = [reqs EXCEPT ![i] = getProfile(reqs[i])]
  /\ UNCHANGED <<users, nextId, now, nodeEnv, proc>>

\* ------------------------------------------------------ identity middleware
\* Faulty variant: any scheme is taken for Bearer.
HasBearerAnyScheme(header) == header.present

\* authHeader && authHeader.startsWith("Bearer ")
HasBearer(header) == header.present /\ header.prefix = "Bearer "

\* The catch block of authenticate: what it passes to next.
authenticateCatch(error) ==
  IF InstanceOf(error, "JsonWebTokenError")
  THEN UnauthorizedError("Invalid token")
  ELSE IF InstanceOf(error, "TokenExpiredError")
  THEN UnauthorizedError("Token expired")
  ELSE error

\* authenticate up to its await: the header and the token.
authenticate(r) ==
  IF ~HasBearer(r.header)
  THEN Fail(r, authenticateCatch(UnauthorizedError("No token provided")))
  ELSE LET v == JwtVerify(r.header.tok, JwtSecret, now)
       IN  IF ~v.ok
           THEN Fail([r EXCEPT !.at = now, !.ops = @ \o <<"verify">>],
                     authenticateCatch(v.err))
           ELSE [r EXCEPT !.pc = "lookup", !.decoded = v.payload, !.at = now,
                          !.ops = @ \o <<"verify">>]

\* getMe up to its await: the identity check.
getMe(r) ==
  IF ~r.identity.attached
  THEN Fail([r EXCEPT !.ops = @ \o <<"getMe">>], PlainError("User not authenticated"))
  ELSE [r EXCEPT !.pc = "profile", !.ops = @ \o <<"getMe">>]

\* Faulty variant: authenticate trusts the token and does not look at the store's answer.
authenticateLookupTrusting(r) ==
  getMe([r EXCEPT !.identity = [attached |-> TRUE, id |-> r.decoded.userId,
                                email |-> r.decoded.email],
                  !.ops = @ \o <<"findUnique", "next">>])

\* Faulty variant: authenticate calls next() without attaching the user.
authenticateLookupNoAttach(r) ==
  LET user == Select(FindById(r.decoded.userId), {"id", "email"})
  IN  IF ~Exists(user)
      THEN Fail([r EXCEPT !.ops = @ \o <<"findUnique">>],
                authenticateCatch(UnauthorizedError("User not found")))
      ELSE getMe([r EXCEPT !.ops = @ \o <<"findUnique", "next">>])

\* authenticate after its await: the user of the token, then next().
authenticateLookup(r) ==
  LET user == Select(FindById(r.decoded.userId), {"id", "email"})
  IN  IF ~Exists(user)
      THEN Fail([r EXCEPT !.ops = @ \o <<"findUnique">>],
                authenticateCatch(UnauthorizedError("User not found")))
      ELSE getMe([r EXCEPT !.identity = [attached |-> TRUE, id |-> user.id,
                                         email |-> user.email],
                           !.ops = @ \o <<"findUnique", "next">>])

\* Faulty variant: optionalAuth forwards what jwt.verify throws.
optionalAuthForwarding(r) ==
  IF HasBearer(r.header)
  THEN LET v == JwtVerify(r.header.tok, JwtSecret, now)
       IN  IF ~v.ok
           THEN Fail([r EXCEPT !.at = now, !.ops = @ \o <<"verify">>], v.err)
           ELSE [r EXCEPT !.pc = "lookup", !.decoded = v.payload, !.at = now,
                          !.ops = @ \o <<"verify">>]
  ELSE [r EXCEPT !.pc = "done", !.ops = @ \o <<"next">>]

\* optionalAuth up to its await; every failure ends in a bare next().
optionalAuth(r) ==
  IF HasBearer(r.header)
  THEN LET v == JwtVerify(r.header.tok, JwtSecret, now)
       IN  IF ~v.ok
           THEN [r EXCEPT !.pc = "done", !.at = now, !.ops = @ \o <<"verify", "next">>]
           ELSE [r EXCEPT !.pc = "lookup", !.decoded = v.payload, !.at = now,
                          !.ops = @ \o <<"verify">>]
  ELSE [r EXCEPT !.pc = "done", !.ops = @ \o <<"next">>]

\* Faulty variant: optionalAuth attaches the token's claims without a user.
optionalAuthLookupTrusting(r) ==
  [r EXCEPT !.pc = "done",
            !.identity = [attached |-> TRUE, id |-> r.decoded.userId,
                          email |-> r.decoded.email],
            !.ops = @ \o <<"findUnique", "next">>]

\* Faulty variant: optionalAuth returns without next() when the user is gone.
optionalAuthLookupSilent(r) ==
  LET user == Select(FindById(r.decoded.userId), {"id", "email"})
  IN  IF Exists(user)
      THEN [r EXCEPT !.pc = "done",
                     !.identity = [attached |-> TRUE, id |-> user.id,
                                   email |-> user.email],
                     !.ops = @ \o <<"findUnique", "next">>]
      ELSE [r EXCEPT !.pc = "done", !.ops = @ \o <<"findUnique">>]

\* optionalAuth after its await.
optionalAuthLookup(r) ==
  LET user == Select(FindById(r.decoded.userId), {"id", "email"})
  IN  IF Exists(user)
      THEN [r EXCEPT !.pc = "done",
                     !.identity = [attached |-> TRUE, id |-> user.id,
                                   email |-> user.email],
                     !.ops = @ \o <<"findUnique", "next">>]
      ELSE [r EXCEPT !.pc = "done", !.ops = @ \o <<"findUnique", "next">>]

\* A request arrives and runs to its first await: the validation gate and
\* the call of the controller, or the middleware's look at the header and
\* the token.  Requests are numbered in the order of arrival.
Receive(i) ==
  /\ reqs[i].pc = "idle"
  /\ i > 1 => reqs[i - 1].pc # "idle"
  /\ \E route \in Routes :
       IF route \in {"register", "login"}
       THEN \E b \in Bodies :
              reqs' = [reqs EXCEPT ![i] =
                         validate([NoReq EXCEPT !.route = route, !.body = b])]
       ELSE \E h \in Headers :
              reqs' = [reqs EXCEPT ![i] =
                         IF route = "me"
                         THEN authenticate([NoReq EXCEPT !.route = route, !.header = h])
                         ELSE optionalAuth([NoReq EXCEPT !.route = route, !.header = h])]
  /\ UNCHANGED <<users, nextId, now, nodeEnv, proc>>

Lookup(i) ==
  /\ reqs[i].pc = "lookup"
  /\ reqs' = [reqs EXCEPT ![i] = IF reqs[i].route = "me" THEN authenticateLookup(reqs[i])
                                 ELSE optionalAuthLookup(reqs[i])]
  /\ UNCHANGED <<users, nextId, now, nodeEnv, proc>>

\* -------------------------------------------------------------- environment
Tick ==
  /\ now < MaxTime
  /\ now' = now + 1
  /\ UNCHANGED <<users, nextId, nodeEnv, reqs, proc>>

\* Another client of the store removes a user.
ExternalDelete ==
  /\ \E u \in users : users' = users \ {u}
  /\ UNCHANGED <<nextId, now, nodeEnv, reqs, proc>>

\* A user registered before this server started.
SeedUser ==
  [NoUser EXCEPT !.id = 1, !.email = "a@b.com",
                 !.password = BcryptHash("Test1234", BcryptRounds, 1)]

\* The server starts on a store that is empty or already holds a user.
Init ==
  /\ \/ users = {} /\ nextId = 1
     \/ users = {SeedUser} /\ nextId = 2
  /\ now = 0
  /\ nodeEnv \in NodeEnvs
  /\ reqs = [i \in Req |-> NoReq]
  /\ proc = Serving

Next ==
  \/ \E i \in Req : Receive(i)
  \/ \E i \in Req : RegisterCheck(i)
  \/ \E i \in Req : RegisterCreate(i)
  \/ \E i \in Req : LoginFind(i)
  \/ \E i \in Req : LoginCompare(i)
  \/ \E i \in Req : Lookup(i)
  \/ \E i \in Req : GetProfile(i)
  \/ Tick
  \/ ExternalDelete

Spec == Init /\ [][Next]_vars


\* =================================================================== claims
Done(r) == r.pc = "done"
HasToken(r) == r.resp.token.kind = "jwt"
EmailTaken(email) == \E u \in users : u.email = email
\* Request i takes the step that leaves position pc.
Leaves(i, pc) == reqs[i].pc = pc /\ reqs'[i].pc # pc

\* What C1 asks of each step of request i.
C1_RegisterStep(i) ==
  LET r == reqs[i]
      r2 == reqs'[i]
  IN  /\ (r.pc = "idle" /\ r2.route = "register" /\ RegisterSchema(r2.body) = << >>)
           => r2.pc = "find"
      /\ (r.route = "register" /\ Leaves(i, "find") /\ ~EmailTaken(r.body.email))
           => r2.pc = "create"
      /\ (Leaves(i, "create") /\ ~EmailTaken(r.body.email))
           => /\ Done(r2)
              /\ r2.resp.status = 201
              /\ r2.resp.success
              /\ r2.resp.token.kind = "jwt"
              /\ r2.resp.token.email = r.body.email
              /\ \E u \in users' \ users :
                   /\ u.email = r.body.email
                   /\ r2.resp.token.userId = u.id
                   /\ r2.resp.user.id = u.id
              /\ users' \ users # {} /\ Cardinality(users' \ users) = 1
              /\ r2.resp.user.email = r.body.email
              /\ "password" \notin DOMAIN r2.resp.user

\* C1: a valid registration payload whose email is not in the store passes
\* the gate and the existence check, and the insert then answers 201, adds a
\* user with that email, and returns a token carrying that email and the new
\* user's id, with a user object that has no password field.
C1_RegisterSucceeds == [][\A i \in Req : C1_RegisterStep(i)]_vars

C1_Witness ==
  \E i \in Req :
    /\ reqs[i].route = "register"
    /\ Done(reqs[i])
    /\ reqs[i].resp.status = 201
    /\ \E u \in users : u.id = reqs[i].resp.user.id /\ u.email = reqs[i].body.email

\* What C2 asks of each step of request i.
C2_ConflictStep(i) ==
  LET r == reqs[i]
      r2 == reqs'[i]
  IN  (r.route = "register" /\ Leaves(i, "find") /\ EmailTaken(r.body.email))
        => /\ Done(r2)
           /\ r2.err.cls = "ConflictError"
           /\ r2.resp.status = r2.err.statusCode
           /\ ~r2.resp.success
           /\ r2.resp.message = "User with this email already exists"
           /\ r2.resp.token = NoToken
           /\ "data" \notin r2.resp.keys
           /\ users' = users
           /\ nextId' = nextId

\* C2: a register whose email is in the store at the existence check ends
\* there with the Conflict error, whatever its password; the store is left
\* as it was and the response has no token.
C2_RegisterConflict == [][\A i \in Req : C2_ConflictStep(i)]_vars

\* A conflict on a password that is not the stored user's.
C2_Witness ==
  \E i \in Req :
    /\ reqs[i].route = "register"
    /\ Done(reqs[i])
    /\ reqs[i].err.cls = "ConflictError"
    /\ \E u \in users :
         /\ u.email = reqs[i].body.email
         /\ u.password.of # reqs[i].body.password


Has(seq, x) == \E k \in 1..Len(seq) : seq[k] = x

\* Requests i and j registered the same email and both got past the
\* existence check; what they created is still in the store.
C3_Raced(i, j) ==
  /\ i # j
  /\ \A k \in {i, j} :
       /\ reqs[k].route = "register"
       /\ Done(reqs[k])
       /\ Has(reqs[k].ops, "create")
       /\ reqs[k].resp.status = 201 => \E u \in users : u.id = reqs[k].resp.user.id
  /\ reqs[i].body.email = reqs[j].body.email

\* C3: of two registers of the same unused email that both pass the
\* existence check, one creates the user and answers 201 and the other is
\* answered with the Conflict failure (409).
C3_RaceLoserGetsConflict ==
  \A i, j \in Req :
    C3_Raced(i, j) =>
      /\ Cardinality({u \in users : u.email = reqs[i].body.email}) <= 1
      /\ Cardinality({k \in {i, j} : reqs[k].resp.status = 201}) = 1
      /\ \A k \in {i, j} :
           reqs[k].resp.status # 201 =>
             /\ reqs[k].resp.status = 409
             /\ ~reqs[k].resp.success

\* A login that got past the validation gate and was refused.
LoginRefused(r) ==
  /\ r.route = "login"
  /\ Done(r)
  /\ Has(r.ops, "findUnique")
  /\ ~r.resp.success

LoginUnauthorized(r) ==
  /\ Done(r)
  /\ r.err.cls = "UnauthorizedError"
  /\ r.resp.status = r.err.statusCode
  /\ ~r.resp.success
  /\ r.resp.token = NoToken
  /\ "data" \notin r.resp.keys

\* What C5 asks of each step of request i.
C5_LoginStep(i) ==
  LET r == reqs[i]
      r2 == reqs'[i]
  IN  /\ (r.route = "login" /\ Leaves(i, "find"))
           => IF EmailTaken(r.body.email)
              THEN /\ r2.pc = "compare"
                   /\ r2.found \in users
                   /\ r2.found.email = r.body.email
                   /\ r2.resp = NoResp
              ELSE LoginUnauthorized(r2)
      /\ Leaves(i, "compare")
           => IF r.found.password.of = r.body.password
              THEN /\ Done(r2)
                   /\ r2.resp.status = 200
                   /\ r2.resp.token.kind = "jwt"
                   /\ r2.resp.token.userId = r.found.id
                   /\ r2.resp.token.email = r.found.email
              ELSE LoginUnauthorized(r2)
      /\ (r2.route = "login" /\ ~HasToken(r) /\ HasToken(r2)) => r.pc = "compare"

\* C5: login returns a token only when the store holds a user with the email
\* and the password is the one that user's hash was made of; the token then
\* carries that user's id and email.  Otherwise the service fails with
\* Unauthorized and no token is issued.
C5_LoginTokenOnlyForCredentials == [][\A i \in Req : C5_LoginStep(i)]_vars

C5_Witness ==
  \E i \in Req :
    /\ reqs[i].route = "login"
    /\ Done(reqs[i])
    /\ HasToken(reqs[i])
    /\ reqs[i].found.password.of = reqs[i].body.password
    /\ reqs[i].resp.token.userId = reqs[i].found.id


\* The request was refused with a 401 before any handler ran.
Rejected401(r) ==
  /\ Done(r)
  /\ r.err.cls = "UnauthorizedError"
  /\ r.resp.status = 401
  /\ ~r.resp.success
  /\ ~r.identity.attached
  /\ ~Has(r.ops, "next")
  /\ ~Has(r.ops, "getMe")

\* The Authorization header carries no Bearer credential.
NoBearer(header) == ~header.present \/ header.prefix # "Bearer "

\* The token was signed by the server and has not been altered.
Genuine(token) ==
  /\ token.kind = "jwt"
  /\ token.sig = <<JwtSecret, token.userId, token.email, token.iat, token.exp>>

\* What C6 asks of each step of request i.
C6_AuthenticateStep(i) ==
  LET r == reqs[i]
      r2 == reqs'[i]
  IN  /\ (r.pc = "idle" /\ r2.route = "me"
          /\ (NoBearer(r2.header) \/ r2.header.tok.kind # "jwt"))
           => Rejected401(r2)
      /\ (r.route = "me" /\ Leaves(i, "lookup")
          /\ \A u \in users : u.id # r.decoded.userId)
           => Rejected401(r2)

\* C6: authenticate answers 401 with an Unauthorized error, attaches no
\* identity and does not call the handler when the header is absent, when
\* the scheme is not Bearer, when the token is malformed, and when the
\* token is valid but its user is no longer in the store.
C6_AuthenticateRejects == [][\A i \in Req : C6_AuthenticateStep(i)]_vars

\* A valid token whose user was removed: refused by authenticate itself.
C6_Witness ==
  \E i \in Req :
    /\ reqs[i].route = "me"
    /\ Genuine(reqs[i].header.tok)
    /\ reqs[i].decoded = reqs[i].header.tok
    /\ Rejected401(reqs[i])
    /\ reqs[i].resp.message = "User not found"
    /\ \A u \in users : u.id # reqs[i].decoded.userId

\* C7: a request to authenticate without a header, or with a header that
\* does not start with "Bearer ", is answered 401 "No token provided", and
\* neither jwt.verify nor the store is called for it.
C7_NoBearerNoToken ==
  \A i \in Req :
    (reqs[i].route = "me" /\ NoBearer(reqs[i].header))
      => /\ Done(reqs[i])
         /\ reqs[i].resp.status = 401
         /\ reqs[i].resp.message = "No token provided"
         /\ ~reqs[i].resp.success
         /\ ~Has(reqs[i].ops, "verify")
         /\ ~Has(reqs[i].ops, "findUnique")

\* A valid token sent under another scheme.
C7_Witness ==
  \E i \in Req :
    /\ reqs[i].route = "me"
    /\ Done(reqs[i])
    /\ reqs[i].header.present
    /\ reqs[i].header.prefix = "Basic "
    /\ Genuine(reqs[i].header.tok)
    /\ now < reqs[i].header.tok.exp
    /\ \E u \in users : u.id = reqs[i].header.tok.userId

\* C8: a Bearer token that fails verification in authenticate is answered
\* 401 "Token expired" when it is correctly signed and past its expiry, and
\* 401 "Invalid token" when its signature or structure is wrong.
C8_ExpiredToldApart ==
  \A i \in Req :
    LET r == reqs[i]
        t == r.header.tok
    IN  (r.route = "me" /\ ~NoBearer(r.header) /\ Done(r) /\ ~Has(r.ops, "findUnique"))
          => /\ r.resp.status = 401
             /\ (Genuine(t) /\ r.at >= t.exp) => r.resp.message = "Token expired"
             /\ ~Genuine(t) => r.resp.message = "Invalid token"

\* C9: a token verified at the moment it was issued for a user verifies,
\* and the payload carries that user's id and email.
C9_RoundTrip ==
  \A i \in Req :
    HasToken(reqs[i]) =>
      LET v == JwtVerify(reqs[i].resp.token, JwtSecret, reqs[i].at)
      IN  /\ v.ok
          /\ v.payload.userId = reqs[i].resp.user.id
          /\ v.payload.email = reqs[i].resp.user.email
          /\ \A j \in Req :
               (/\ reqs[j].route \in {"me", "opt"}
                /\ ~NoBearer(reqs[j].header)
                /\ reqs[j].header.tok = reqs[i].resp.token
                /\ reqs[j].at = reqs[i].at)
                 => /\ Has(reqs[j].ops, "verify")
                    /\ reqs[j].decoded.userId = reqs[i].resp.user.id
                    /\ reqs[j].decoded.email = reqs[i].resp.user.email

\* A token issued by one request and verified by another at once.
C9_Witness ==
  \E i, j \in Req :
    /\ HasToken(reqs[i])
    /\ reqs[j].route = "me"
    /\ ~NoBearer(reqs[j].header)
    /\ reqs[j].header.tok = reqs[i].resp.token
    /\ reqs[j].at = reqs[i].at
    /\ reqs[j].decoded.userId = reqs[i].resp.user.id

\* optionalAuth let the request through: one next(), no error, no response.
Proceeds(r) ==
  /\ Done(r)
  /\ r.err = NoError
  /\ r.resp = NoResp
  /\ ~r.log.written
  /\ ~Has(r.ops, "next(err)")
  /\ Cardinality({k \in 1..Len(r.ops) : r.ops[k] = "next"}) = 1

\* What C10 asks of each step of request i.
C10_OptionalStep(i) ==
  LET r == reqs[i]
      r2 == reqs'[i]
      t == r2.header.tok
  IN  /\ (r.pc = "idle" /\ r2.route = "opt"
          /\ (NoBearer(r2.header) \/ ~Genuine(t) \/ now >= t.exp))
           => Proceeds(r2) /\ ~r2.identity.attached
      /\ (r.route = "opt" /\ Leaves(i, "lookup")
          /\ \A u \in users : u.id # r.decoded.userId)
           => Proceeds(r2) /\ ~r2.identity.attached
      /\ (r2.route = "opt" /\ Done(r2)) => Proceeds(r2)

\* C10: optionalAuth never passes an error on: with a missing header, a bad
\* scheme, an invalid token, an expired token or a token whose user is not
\* in the store it calls next() without an error and attaches no identity.
C10_OptionalAuthSwallows == [][\A i \in Req : C10_OptionalStep(i)]_vars

\* An expired token let through without an identity.
C10_Witness ==
  \E i \in Req :
    /\ reqs[i].route = "opt"
    /\ ~NoBearer(reqs[i].header)
    /\ Genuine(reqs[i].header.tok)
    /\ reqs[i].at >= reqs[i].header.tok.exp
    /\ Proceeds(reqs[i])
    /\ ~reqs[i].identity.attached

\* The request continues to its handler with an identity attached.
Continues(r) == r.identity.attached /\ Has(r.ops, "next")

\* The token of request r was verified: jwt.verify returned its payload.
Verified(r) == r.decoded # NoToken

\* Request r went through one of the two middlewares at the present clock
\* value; the other one, given the same header now, comes to the same
\* verdict and the same payload.
C11_SameVerdict(r) ==
  LET fresh == [NoReq EXCEPT !.header = r.header]
      other == IF r.route = "me"
               THEN optionalAuth([fresh EXCEPT !.route = "opt"])
               ELSE authenticate([fresh EXCEPT !.route = "me"])
  IN  /\ Verified(r) <=> other.pc = "lookup"
      /\ Verified(r) => other.decoded = r.decoded
      /\ ~Verified(r) => ~Continues(r) /\ ~Continues(other)

\* What they do with the request r after their await, on the same store.
C11_SameIdentity(r) ==
  LET a == authenticateLookup(r)
      o == optionalAuthLookup(r)
  IN  /\ Continues(a) <=> Continues(o)
      /\ a.identity.attached <=> Continues(a)
      /\ a.identity = o.identity
      /\ Continues(o) => Done(o) /\ o.err = NoError

\* C11: on the same header, clock and store, optionalAuth attaches an
\* identity and continues exactly when authenticate does, and the identity
\* {id, email} is the same.
C11_OptionalAuthMatchesAuthenticate ==
  \A i \in Req :
    /\ (/\ reqs[i].route \in {"me", "opt"}
        /\ HasBearer(reqs[i].header) => reqs[i].at = now)
         => C11_SameVerdict(reqs[i])
    /\ reqs[i].pc = "lookup" => C11_SameIdentity(reqs[i])

\* optionalAuth attached the identity of a genuine token's user, in a state
\* in which authenticate attaches it too.
C11_Witness ==
  \E i \in Req :
    /\ reqs[i].route = "opt"
    /\ Done(reqs[i])
    /\ Continues(reqs[i])
    /\ reqs[i].identity.id = reqs[i].header.tok.userId
    /\ Continues(authenticateLookup([reqs[i] EXCEPT !.pc = "lookup", !.identity = NoIdentity]))

\* The schema of the route of request r, applied to its body.
SchemaIssues(r) ==
  IF r.route = "register" THEN RegisterSchema(r.body) ELSE LoginSchema(r.body)

Gated(r) == r.route \in {"register", "login"}

\* The 422 of request r lists the issues of its body, one entry each, in
\* the order the schema found them.
C12_Lists(r) ==
  LET issues == SchemaIssues(r)
      errors == r.resp.errors
  IN  /\ Done(r)
      /\ r.resp.status = 422
      /\ ~r.resp.success
      /\ r.resp.message = "Validation failed"
      /\ "errors" \in r.resp.keys
      /\ Len(errors) >= 1
      /\ Len(errors) = Len(issues)
      /\ \A k \in 1..Len(errors) :
           /\ errors[k].field # ""
           /\ errors[k].field = "body." \o issues[k].path[2]
           /\ errors[k].message # ""
           /\ errors[k].message = issues[k].message

C12_ExampleBody == [email |-> "not-an-email", password |-> "short"]

\* The errors of r have an entry for the email and one for the password.
C12_BothFields(r) ==
  /\ \E k \in 1..Len(r.resp.errors) : r.resp.errors[k].field = "body.email"
  /\ \E k \in 1..Len(r.resp.errors) : r.resp.errors[k].field = "body.password"

Submit(i) ==
  /\ reqs[i].pc = "idle"
  /\ \E route \in {"register", "login"}, e \in {"a@b.com", "not-an-email"}, p \in Passwords :
       reqs' = [reqs EXCEPT ![i] =
                  validate([NoReq EXCEPT !.route = route,
                                         !.body = [email |-> e, password |-> p]])]
  /\ UNCHANGED <<users, nextId, now, nodeEnv, proc>>

NextGate == \E i \in Req : Submit(i)

SpecGate == Init /\ [][NextGate]_vars

\* The four conditions on a password, and how many of them it violates.
LongEnough(p) == Len(Chars(p)) >= 8
HasUpper(p) == \E k \in 1..Len(Chars(p)) : Chars(p)[k] \in UpperChars
HasLower(p) == \E k \in 1..Len(Chars(p)) : Chars(p)[k] \in LowerChars
HasDigit(p) == \E k \in 1..Len(Chars(p)) : Chars(p)[k] \in DigitChars
Violations(p) ==
  (IF LongEnough(p) THEN 0 ELSE 1) + (IF HasUpper(p) THEN 0 ELSE 1)
  + (IF HasLower(p) THEN 0 ELSE 1) + (IF HasDigit(p) THEN 0 ELSE 1)

\* The gate's answer names the password.
PasswordRefused(r) ==
  /\ Done(r)
  /\ r.resp.status = 422
  /\ \E k \in 1..Len(r.resp.errors) : r.resp.errors[k].field = "body.password"

\* C13: the register gate refuses a password exactly when it is shorter
\* than 8 or lacks an uppercase letter, a lowercase letter or a digit; with
\* a well-formed email the request passes the gate exactly when the
\* password meets all four conditions.
C13_PasswordRule ==
  \A i \in Req :
    (reqs[i].route = "register" /\ reqs[i].pc # "idle")
      => LET r == reqs[i]
             p == r.body.password
         IN  /\ PasswordRefused(r) <=> Violations(p) > 0
             /\ Violations(p) > 0 => Done(r) /\ ~Has(r.ops, "next")
             /\ IsEmail(r.body.email) => (Has(r.ops, "next") <=> Violations(p) = 0)

\* One password passed the gate and one that violates a single condition,
\* the digit, was refused.
C13_Witness ==
  \E i, j \in Req :
    /\ Has(reqs[i].ops, "next") /\ Violations(reqs[i].body.password) = 0
    /\ PasswordRefused(reqs[j])
    /\ Violations(reqs[j].body.password) = 1
    /\ ~HasDigit(reqs[j].body.password)

\* What the Auth Service does: store reads and writes, hashing, comparing,
\* signing.
ServiceOps == {"findUnique", "hash", "create", "compare", "sign"}

ServiceInvoked(r) == \E k \in 1..Len(r.ops) : r.ops[k] \in ServiceOps

\* The bodies each schema accepts.
AcceptedBy ==
  [route \in {"register", "login"} |->
     {b \in Bodies : (IF route = "register" THEN RegisterSchema(b)
                      ELSE LoginSchema(b)) = << >>}]

Accepted(r) == r.body \in AcceptedBy[r.route]

\* C14: on register and login the service runs only after the gate has
\* called next(); a request the schema rejects ends at the gate with the
\* error response, without a store lookup, an insert, a hash or a token,
\* and nothing the store holds comes from a rejected body.
C14_ServiceOnlyAfterGate ==
  /\ \A i \in Req :
       (Gated(reqs[i]) /\ reqs[i].pc # "idle")
         => LET r == reqs[i]
            IN  /\ r.ops[1] = "validate"
                /\ ServiceInvoked(r)
                     => /\ r.ops[2] = "next"
                        /\ Accepted(r)
                        /\ \A k \in 1..2 : r.ops[k] \notin ServiceOps
                /\ ~Accepted(r)
                     => /\ r.ops = <<"validate", "next(err)", "log", "send">>
                        /\ r.resp.token = NoToken
                        /\ r.found = NoUser
  /\ \A u \in users :
       [email |-> u.email, password |-> u.password.of] \in AcceptedBy["register"]

\* One request was turned away at the gate and another went on to the
\* service.
C14_Witness ==
  \E i, j \in Req :
    /\ Gated(reqs[i]) /\ Done(reqs[i]) /\ reqs[i].err.cls = "ZodError"
    /\ Gated(reqs[j]) /\ reqs[j].ops[2] = "next" /\ Has(reqs[j].ops, "create")

\* The plaintext passwords a client submitted or a stored hash was made of.
Plaintexts ==
  ({reqs[j].body.password : j \in Req} \cup {u.password.of : u \in users}) \ {""}

\* The texts of a response payload.
Texts(resp) ==
  {resp.message, resp.stack, resp.token.email}
  \cup {resp.errors[k].field : k \in 1..Len(resp.errors)}
  \cup {resp.errors[k].message : k \in 1..Len(resp.errors)}
  \cup {resp.user[f] : f \in DOMAIN resp.user \cap {"email", "firstName", "lastName", "phone"}}

\* C15: no response of register, login or GET /me, success or error,
\* carries a password: the user object has no field beyond id, email,
\* names, phone and creation time, so no hash, and no text of the payload
\* is a submitted or stored plaintext password.
C15_NoPasswordInResponses ==
  LET secrets == Plaintexts
  IN  \A i \in Req :
        (reqs[i].route \in {"register", "login", "me"} /\ Done(reqs[i]))
          => LET resp == reqs[i].resp
             IN  /\ DOMAIN resp.user \subseteq
                      {"id", "email", "firstName", "lastName", "phone", "createdAt"}
                 /\ "password" \notin DOMAIN resp.token
                 /\ \A t \in Texts(resp) : t \notin secrets

\* A login answered with the user whose stored hash is of the submitted
\* password, and GET /me answered with the same user's profile.
C15_Witness ==
  \E i, j \in Req :
    /\ reqs[i].route \in {"register", "login"}
    /\ Done(reqs[i]) /\ reqs[i].resp.success
    /\ \E u \in users : u.id = reqs[i].resp.user.id /\ u.password.of = reqs[i].body.password
    /\ reqs[j].route = "me"
    /\ Done(reqs[j]) /\ reqs[j].resp.status = 200
    /\ reqs[j].resp.user.id = reqs[i].resp.user.id

\* ------------------------------------------- one client, request by request
\* A client that registers, logs in and asks for its profile, and sends
\* each request after the answer to the one before.
ReqE == 1..(MaxReq + 1)

RouteE(i) == CASE i % 3 = 1 -> "register" [] i % 3 = 2 -> "login" [] OTHER -> "me"

ReceiveE(i) ==
  /\ reqs[i].pc = "idle"
  /\ i > 1 => Done(reqs[i - 1])
  /\ IF RouteE(i) = "me"
     THEN \E h \in Headers :
            reqs' = [reqs EXCEPT ![i] =
                       authenticate([NoReq EXCEPT !.route = "me", !.header = h])]
     ELSE \E b \in Bodies :
            reqs' = [reqs EXCEPT ![i] =
                       validate([NoReq EXCEPT !.route = RouteE(i), !.body = b])]
  /\ UNCHANGED <<users, nextId, now, nodeEnv, proc>>

InitE ==
  /\ \/ users = {} /\ nextId = 1
     \/ users = {SeedUser} /\ nextId = 2
  /\ now = 0
  /\ nodeEnv \in NodeEnvs
  /\ reqs = [i \in ReqE |-> NoReq]
  /\ proc = Serving

NextE ==
  \/ \E i \in ReqE : ReceiveE(i)
  \/ \E i \in ReqE : RegisterCheck(i)
  \/ \E i \in ReqE : RegisterCreate(i)
  \/ \E i \in ReqE : LoginFind(i)
  \/ \E i \in ReqE : LoginCompare(i)
  \/ \E i \in ReqE : Lookup(i)
  \/ \E i \in ReqE : GetProfile(i)
  \/ Tick

SpecE2E == InitE /\ [][NextE]_vars

\* Request i is a register answered 201 with a token.
Registered(i) ==
  /\ reqs[i].route = "register"
  /\ Done(reqs[i])
  /\ reqs[i].resp.status = 201
  /\ HasToken(reqs[i])

\* Request j is a later login with the credentials of register i.
LoginOf(i, j) ==
  /\ j > i
  /\ reqs[j].route = "login"
  /\ Done(reqs[j])
  /\ reqs[j].body = reqs[i].body

\* Request k is a later GET /me with the token of login j, verified before
\* the token's expiry.
MeWith(j, k) ==
  /\ k > j
  /\ reqs[k].route = "me"
  /\ Done(reqs[k])
  /\ reqs[k].header = [present |-> TRUE, prefix |-> "Bearer ", tok |-> reqs[j].resp.token]
  /\ reqs[k].at < reqs[j].resp.token.exp

\* C16: after a register of (e, p) answered 201 with a token, a later login
\* with (e, p) is answered 200 with a token whose email is e, and a later
\* GET /me with that token, before its expiry, is answered 200 with the id
\* of the user the registration returned.
C16_RegisterLoginMe ==
  \A i, j \in ReqE :
    (Registered(i) /\ LoginOf(i, j))
      => /\ reqs[j].resp.status = 200
         /\ reqs[j].resp.success
         /\ HasToken(reqs[j])
         /\ Genuine(reqs[j].resp.token)
         /\ reqs[j].resp.token.email = reqs[i].body.email
         /\ \A k \in ReqE :
              MeWith(j, k)
                => /\ reqs[k].resp.status = 200
                   /\ reqs[k].resp.success
                   /\ reqs[k].resp.user.id = reqs[i].resp.user.id
                   /\ reqs[k].resp.user.email = reqs[i].body.email

\* The whole chain happened, on a store that held another user before.
C16_Witness ==
  \E i, j, k \in ReqE :
    /\ Registered(i) /\ LoginOf(i, j) /\ MeWith(j, k)
    /\ reqs[k].resp.status = 200
    /\ SeedUser \in users

\* ------------------------------------------------ the error translator alone
\* Failures of the store that are not PrismaClientKnownRequestError: the
\* database cannot be reached, or the engine reports an error without a
\* code.  Which class a lost connection surfaces as depends on where it is
\* detected, so the translator is given both.
PrismaInitializationError(message) == MkError("PrismaClientInitializationError", 0, message)
PrismaUnknownRequestError(message) == MkError("PrismaClientUnknownRequestError", 0, message)

\* The codes of PrismaClientKnownRequestError put to the translator: unique
\* constraint, foreign key, required relation, record not found, pool
\* timeout, value too long, database not reachable.
PrismaCodes == {"P2002", "P2003", "P2014", "P2025", "P2024", "P2000", "P1001"}

\* The classes of the errors the persistence layer throws.
StoreErrorClasses ==
  {"PrismaClientKnownRequestError", "PrismaClientInitializationError",
   "PrismaClientUnknownRequestError"}

\* What a middleware or handler may pass to next(err) or throw.
Thrown ==
  {ConflictError("User with this email already exists"),
   UnauthorizedError("Invalid credentials"),
   ZodError(RegisterSchema([email |-> "not-an-email", password |-> "short"])),
   JsonWebTokenError("jwt malformed"),
   TokenExpiredError("jwt expired"),
   PlainError("User not authenticated"),
   PlainError("Cannot read properties of undefined (reading 'email')"),
   PlainError(""),
   PrismaInitializationError("Can't reach database server at localhost:5432"),
   PrismaUnknownRequestError("Error occurred during query execution")}
  \cup {PrismaKnownRequestError(c, IF c = "P2002" THEN "email" ELSE "") : c \in PrismaCodes}

\* process.env.NODE_ENV: not set, or one of the values env.ts admits.
AllNodeEnvs == {"unset", "development", "production", "test"}

\* env.NODE_ENV: the schema's default stands in for an unset variable.
EnvNodeEnv(raw) == IF raw = "unset" THEN "development" ELSE raw

\* config.server.isDevelopment
IsDevelopment(raw) == EnvNodeEnv(raw) = "development"

\* An error reaches errorHandler on some route.
Raise(i) ==
  /\ reqs[i].pc = "idle"
  /\ \E route \in {"register", "login", "me"}, err \in Thrown :
       reqs' = [reqs EXCEPT ![i] = Fail([NoReq EXCEPT !.route = route], err)]
  /\ UNCHANGED <<users, nextId, now, nodeEnv, proc>>

InitErr ==
  /\ users = {}
  /\ nextId = 1
  /\ now = 0
  /\ nodeEnv \in AllNodeEnvs
  /\ reqs = [i \in Req |-> NoReq]
  /\ proc = Serving

NextErr == \E i \in Req : Raise(i)

SpecErr == InitErr /\ [][NextErr]_vars

\* Request r was answered by errorHandler for an error of class cls.
Answered(r, cls) == Done(r) /\ r.log.written /\ r.err.cls = cls

\* The message the claim gives for each code (the table of the spec).
C17_ClaimedMessage(err) ==
  CASE err.code = "P2002" -> "Duplicate field value: " \o err.target
    [] err.code = "P2003" -> "Invalid input data"
    [] err.code = "P2025" -> "Record not found"
    [] OTHER -> "Database error occurred"

\* C17: a store error is answered 400 with the message of its code:
\* duplicate key "Duplicate field value: <field>", foreign key "Invalid
\* input data", record not found "Record not found", every other code
\* "Database error occurred".
C17_StoreErrorMessages ==
  \A i \in Req :
    Answered(reqs[i], "PrismaClientKnownRequestError")
      => /\ reqs[i].resp.status = 400
         /\ ~reqs[i].resp.success
         /\ reqs[i].resp.message = C17_ClaimedMessage(reqs[i].err)

\* C17, amended: as above, with one more code that has a message of its
\* own: a violated required relation (P2014) gives "Invalid ID".
C17_StoreErrorMessagesWithRelation ==
  \A i \in Req :
    Answered(reqs[i], "PrismaClientKnownRequestError")
      => /\ reqs[i].resp.status = 400
         /\ ~reqs[i].resp.success
         /\ reqs[i].resp.message =
              IF reqs[i].err.code = "P2014" THEN "Invalid ID"
              ELSE C17_ClaimedMessage(reqs[i].err)

\* A relation violation and a code without a case of its own were answered.
C17_Witness ==
  \E i, j \in Req :
    /\ Answered(reqs[i], "PrismaClientKnownRequestError")
    /\ reqs[i].err.code = "P2014"
    /\ reqs[i].resp.message = "Invalid ID"
    /\ Answered(reqs[j], "PrismaClientKnownRequestError")
    /\ reqs[j].err.code = "P2024"
    /\ reqs[j].resp.message = "Database error occurred"

\* The messages errorHandler has for the codes of the store.
GenericStoreMessages ==
  {"Duplicate field value: email", "Invalid ID", "Invalid input data",
   "Record not found", "Database error occurred"}

\* C18: every failure of the persistence layer that reaches errorHandler,
\* a constraint violation or a failure to reach the database, is answered
\* 400 with one of the generic messages, never with the store's own
\* diagnostic text.
C18_StoreFailuresGeneric ==
  \A i \in Req :
    (Done(reqs[i]) /\ reqs[i].log.written /\ reqs[i].err.cls \in StoreErrorClasses)
      => /\ reqs[i].resp.status = 400
         /\ reqs[i].resp.message \in GenericStoreMessages
         /\ reqs[i].resp.message # reqs[i].err.message

\* C19: an error that is no domain, store, validation or token error is
\* answered 500, and outside development mode the response message is not
\* the error's own message.
C19_UnknownErrorSuppressed ==
  \A i \in Req :
    Answered(reqs[i], "Error")
      => /\ reqs[i].resp.status = 500
         /\ (~IsDevelopment(nodeEnv) /\ reqs[i].err.message # "")
              => reqs[i].resp.message # reqs[i].err.message

\* C20: an error response has a stack exactly when config.server.isDevelopment
\* holds, which it does for NODE_ENV "development" and for an unset NODE_ENV.
C20_StackIffDevelopment ==
  \A i \in Req :
    (Done(reqs[i]) /\ reqs[i].log.written)
      => ("stack" \in reqs[i].resp.keys <=> IsDevelopment(nodeEnv))

\* The position of the first x in seq, 0 when there is none.
IndexOf(seq, x) ==
  IF Has(seq, x) THEN CHOOSE k \in 1..Len(seq) : seq[k] = x /\ \A m \in 1..(k - 1) : seq[m] # x
  ELSE 0

\* Request r got its response from errorHandler.
Translated(r) == Done(r) /\ Has(r.ops, "next(err)")

\* C21: for every error errorHandler handles, the log record with the
\* request's method and path, the chosen status and the error's message and
\* stack is written before the response is sent; no response of
\* errorHandler goes out without it.
C21_LoggedBeforeResponse ==
  \A i \in Req :
    Translated(reqs[i])
      => LET r == reqs[i]
         IN  /\ r.log.written
             /\ r.log.method = Method(r.route)
             /\ r.log.path = Path(r.route)
             /\ r.log.statusCode = r.resp.status
             /\ r.log.message = r.err.message
             /\ r.log.stack = Stack(r.err)
             /\ IndexOf(r.ops, "next(err)") < IndexOf(r.ops, "log")
             /\ IndexOf(r.ops, "log") < IndexOf(r.ops, "send")
             /\ r.ops[Len(r.ops)] = "send"

\* A store error answered outside development mode: the response has no
\* stack and the record has it.
C21_Witness ==
  \E i \in Req :
    /\ Translated(reqs[i])
    /\ reqs[i].err.cls = "PrismaClientKnownRequestError"
    /\ reqs[i].resp.status = 400
    /\ reqs[i].resp.stack = ""
    /\ reqs[i].log.stack # ""
    /\ reqs[i].log.statusCode = 400

\* ------------------------------------- the whole application: app.ts routes
\* Faulty variant: the health route answers 200 whatever the probe says.
healthAlwaysOk(r, outcome) ==
  [r EXCEPT !.pc = "done",
            !.ops = @ \o <<outcome, "send">>,
            !.resp = [NoResp EXCEPT
                        !.keys = {"status", "timestamp", "environment", "database"},
                        !.status = 200,
                        !.health = [status |-> "OK", database |-> "connected",
                                    environment |-> EnvNodeEnv(nodeEnv),
                                    timestamp |-> now]]]

\* checkDatabaseHealth: true when the SELECT 1 resolved, false (and a log
\* line) when it rejected; it never throws.
checkDatabaseHealth(outcome) == outcome = "resolved"

\* app.get("/health") after its await: the answer.
health(r, outcome) ==
  LET dbHealthy == checkDatabaseHealth(outcome)
  IN  [r EXCEPT !.pc = "done",
                !.ops = @ \o (IF dbHealthy THEN <<outcome, "send">>
                              ELSE <<outcome, "logger.error", "send">>),
                !.resp = [NoResp EXCEPT
                            !.keys = {"status", "timestamp", "environment", "database"},
                            !.status = IF dbHealthy THEN 200 ELSE 503,
                            !.health = [status |-> IF dbHealthy THEN "OK" ELSE "DEGRADED",
                                        database |-> IF dbHealthy THEN "connected"
                                                     ELSE "disconnected",
                                        environment |-> EnvNodeEnv(nodeEnv),
                                        timestamp |-> now]]]

\* GET /health arrives and sends its probe to the store.
HealthProbe(i) ==
  /\ reqs[i].pc = "idle"
  /\ i > 1 => reqs[i - 1].pc # "idle"
  /\ reqs' = [reqs EXCEPT ![i] = [NoReq EXCEPT !.route = "health", !.pc = "probe",
                                               !.ops = <<"queryRaw">>]]
  /\ UNCHANGED <<users, nextId, now, nodeEnv, proc>>

\* The probe resolves or rejects, and the route answers.
HealthAnswer(i) ==
  /\ reqs[i].pc = "probe"
  /\ \E outcome \in {"resolved", "rejected"} :
       reqs' = [reqs EXCEPT ![i] = health(reqs[i], outcome)]
  /\ UNCHANGED <<users, nextId, now, nodeEnv, proc>>

\* Paths no route matches.
UnknownUrls == {"/", "/api/auth/logout"}

\* notFoundHandler: its own 404.
notFoundHandler(r, url) ==
  [r EXCEPT !.pc = "done",
            !.ops = @ \o <<"send">>,
            !.resp = [NoResp EXCEPT !.keys = {"success", "message"},
                                    !.status = 404,
                                    !.message = "Route " \o url \o " not found"]]

NotFound(i) ==
  /\ reqs[i].pc = "idle"
  /\ i > 1 => reqs[i - 1].pc # "idle"
  /\ \E url \in UnknownUrls :
       reqs' = [reqs EXCEPT ![i] = notFoundHandler([NoReq EXCEPT !.route = "unknown"], url)]
  /\ UNCHANGED <<users, nextId, now, nodeEnv, proc>>

NextApp ==
  \/ Next
  \/ \E i \in Req : HealthProbe(i)
  \/ \E i \in Req : HealthAnswer(i)
  \/ \E i \in Req : NotFound(i)

\* The server runs with NODE_ENV=development, on a store that is empty or
\* already holds a user.
InitApp ==
  /\ \/ users = {} /\ nextId = 1
     \/ users = {SeedUser} /\ nextId = 2
  /\ now = 0
  /\ nodeEnv = "development"
  /\ reqs = [i \in Req |-> NoReq]
  /\ proc = Serving

SpecApp == InitApp /\ [][NextApp]_vars

\* Request r was answered with a failure status.
Failed(r) == Done(r) /\ r.resp.status >= 400

\* C22: every failure response is produced by errorHandler; no middleware,
\* controller, service or route handler writes a failure response itself.
C22_OnlyTranslatorAnswersFailures ==
  \A i \in Req :
    Failed(reqs[i]) => Translated(reqs[i]) /\ reqs[i].log.written

\* C22, amended: every failure response of the auth routes is produced by
\* errorHandler; the two failure responses written elsewhere are the 404
\* of notFoundHandler for a path no route matches and the 503 of /health.
C22_TranslatorAnswersAuthFailures ==
  \A i \in Req :
    Failed(reqs[i])
      => LET r == reqs[i]
         IN  CASE r.route = "unknown" ->
                    /\ ~Translated(r)
                    /\ r.resp.status = 404
                    /\ ~r.resp.success
                    /\ r.ops = <<"send">>
               [] r.route = "health" ->
                    /\ ~Translated(r)
                    /\ r.resp.status = 503
               [] OTHER ->
                    /\ r.route \in {"register", "login", "me"}
                    /\ Translated(r)
                    /\ r.log.written
                    /\ r.log.statusCode = r.resp.status
                    /\ Cardinality({k \in 1..Len(r.ops) : r.ops[k] = "send"}) = 1

\* A login refused by the service through errorHandler, next to a 404.
C22_Witness ==
  \E i, j \in Req :
    /\ LoginRefused(reqs[i]) /\ Failed(reqs[i]) /\ Translated(reqs[i])
    /\ reqs[j].route = "unknown" /\ Failed(reqs[j])

\* ------------------------------------------------------ the health route alone
NextHealth ==
  \/ \E i \in Req : HealthProbe(i)
  \/ \E i \in Req : HealthAnswer(i)
  \/ Tick

\* The probe of every waiting request settles: the store answers or the
\* query fails.
SpecHealth ==
  InitErr /\ [][NextHealth]_vars /\ \A i \in Req : WF_vars(HealthAnswer(i))

\* The answer of /health to request r says what its probe found.
C23_Reports(r) ==
  LET ok == Has(r.ops, "resolved")
      ko == Has(r.ops, "rejected")
  IN  /\ ok # ko
      /\ ok <=> /\ r.resp.status = 200
                /\ r.resp.health.status = "OK"
                /\ r.resp.health.database = "connected"
      /\ ko <=> /\ r.resp.status = 503
                /\ r.resp.health.status = "DEGRADED"
                /\ r.resp.health.database = "disconnected"
      /\ r.resp.health.environment = EnvNodeEnv(nodeEnv)
      /\ r.resp.keys = {"status", "timestamp", "environment", "database"}
      /\ ~Translated(r)
      /\ r.err = NoError
      /\ ~r.log.written
      /\ Cardinality({k \in 1..Len(r.ops) : r.ops[k] = "send"}) = 1

\* C23: GET /health always answers and forwards no error: 200 with status
\* OK and database connected exactly when the probe succeeded, 503 with
\* status DEGRADED and database disconnected exactly when it failed.
C23_HealthAlwaysAnswers ==
  /\ [](\A i \in Req : (reqs[i].route = "health" /\ Done(reqs[i])) => C23_Reports(reqs[i]))
  /\ \A i \in Req : (reqs[i].pc = "probe") ~> Done(reqs[i])

\* One probe succeeded and one failed, and both were answered.
C23_Witness ==
  \E i, j \in Req :
    /\ reqs[i].route = "health" /\ Done(reqs[i]) /\ reqs[i].resp.status = 200
    /\ reqs[j].route = "health" /\ Done(reqs[j]) /\ reqs[j].resp.status = 503
    /\ Has(reqs[j].ops, "logger.error")

\* The kind of an error, in the order of the translation table.
C26_Kind(err) ==
  CASE err.cls \in {"ConflictError", "UnauthorizedError"} -> "domain"
    [] err.cls = "PrismaClientKnownRequestError" -> "store"
    [] err.cls = "ZodError" -> "validation"
    [] err.cls = "JsonWebTokenError" -> "token invalid"
    [] err.cls = "TokenExpiredError" -> "token expired"
    [] OTHER -> "unknown"

\* The status the table gives to each kind.
C26_Status(err) ==
  CASE C26_Kind(err) = "domain" -> err.statusCode
    [] C26_Kind(err) = "store" -> 400
    [] C26_Kind(err) = "validation" -> 422
    [] C26_Kind(err) \in {"token invalid", "token expired"} -> 401
    [] OTHER -> 500

\* C26: every error passed to errorHandler gets exactly one response, with
\* success = false and the status of its kind (the domain error's own code,
\* 400, 422, 401 or 500); an errors array is present only for a structured
\* validation error.
C26_OneResponsePerError ==
  \A i \in Req :
    Translated(reqs[i])
      => LET r == reqs[i]
         IN  /\ Cardinality({k \in 1..Len(r.ops) : r.ops[k] = "send"}) = 1
             /\ r.resp.success = FALSE
             /\ {"success", "message"} \subseteq r.resp.keys
             /\ r.resp.status = C26_Status(r.err)
             /\ r.resp.status \in {r.err.statusCode, 400, 422, 401, 500}
             /\ r.resp.status \in {409, 401, 400, 422, 500}
             /\ ("errors" \in r.resp.keys) <=> (C26_Kind(r.err) = "validation")
             /\ (C26_Kind(r.err) # "validation") => r.resp.errors = << >>

\* A validation error was answered 422 with its errors array, and an
\* expired token, whose class descends from JsonWebTokenError, 401.
C26_Witness ==
  \E i, j \in Req :
    /\ Translated(reqs[i]) /\ C26_Kind(reqs[i].err) = "validation"
    /\ reqs[i].resp.status = 422 /\ Len(reqs[i].resp.errors) > 0
    /\ Translated(reqs[j]) /\ C26_Kind(reqs[j].err) = "token expired"
    /\ reqs[j].resp.status = 401

\* The controller actions, as they are named in a request's operations.
ControllerActions == {"register", "login", "getMe"}

\* Where the controller action starts in the operations of a request
\* (past the end: it never ran).
ControllerAt(ops) ==
  IF \E k \in 1..Len(ops) : ops[k] \in ControllerActions
  THEN CHOOSE k \in 1..Len(ops) :
         /\ ops[k] \in ControllerActions
         /\ \A l \in 1..(k - 1) : ops[l] \notin ControllerActions
  ELSE Len(ops) + 1

\* The calls of next, with or without an error, made by the middleware,
\* the controller action starting at m.
MiddlewareNexts(ops, m) ==
  {k \in 1..Len(ops) : k < m /\ ops[k] \in {"next", "next(err)"}}

\* What the controller action starting at m did to end: its own res.json
\* (a send that does not follow errorHandler's log record) or next(error).
ControllerEnds(ops, m) ==
  {k \in (m + 1)..Len(ops) :
     \/ ops[k] = "next(err)"
     \/ ops[k] = "send" /\ ops[k - 1] # "log"}

\* C27: authenticate, optionalAuth and validate call next exactly once on
\* every path, and every controller action either sends exactly one
\* response or calls next(error) exactly once, never both, never neither.
C27_NextExactlyOnce ==
  \A i \in Req :
    reqs[i].route \in Routes
      => LET r == reqs[i]
             m == ControllerAt(r.ops)
             ran == m <= Len(r.ops)
             nexts == Cardinality(MiddlewareNexts(r.ops, m))
             ends == Cardinality(ControllerEnds(r.ops, m))
         IN  /\ nexts = (IF Done(r) \/ ran THEN 1 ELSE 0)
             /\ ran => r.ops[m - 1] = "next"
             /\ ends = (IF Done(r) /\ ran THEN 1 ELSE 0)
             /\ Cardinality({k \in 1..Len(r.ops) : r.ops[k] = "send"}) <= 1

\* The middleware of two requests called next() once; one controller action
\* then answered and the other forwarded its error.
C27_Witness ==
  \E i, j \in Req :
    /\ Done(reqs[i]) /\ ControllerAt(reqs[i].ops) <= Len(reqs[i].ops)
    /\ reqs[i].resp.success /\ ~Has(reqs[i].ops, "next(err)")
    /\ Done(reqs[j]) /\ ControllerAt(reqs[j].ops) <= Len(reqs[j].ops)
    /\ Has(reqs[j].ops, "next(err)")

\* C29: on GET /api/auth/me getMe runs only after authenticate attached an
\* identity, so its "User not authenticated" branch is never taken and no
\* 500 comes from it; the id handed to getProfile is the id of the token's
\* user as authenticate found it in the store.
C29_GetMeHasIdentity ==
  \A i \in Req :
    LET r == reqs[i]
    IN  r.route = "me"
          => /\ r.err.message # "User not authenticated"
             /\ Done(r) => r.resp.status # 500
             /\ Has(r.ops, "getMe")
                  => /\ r.identity.attached
                     /\ r.identity.id # 0
                     /\ r.identity.id = r.decoded.userId
                     /\ r.identity.id = r.header.tok.userId
                     /\ IndexOf(r.ops, "next") = IndexOf(r.ops, "getMe") - 1
                     /\ \A u \in users : u.id = r.identity.id => u.email = r.identity.email
             /\ (Done(r) /\ r.resp.success) => r.resp.user.id = r.header.tok.userId

\* A client logged in and asked for its profile: getMe ran with the
\* identity authenticate attached and answered with that user.
C29_Witness ==
  \E i, j \in Req :
    /\ Done(reqs[i]) /\ HasToken(reqs[i])
    /\ reqs[j].route = "me" /\ reqs[j].header.tok = reqs[i].resp.token
    /\ Has(reqs[j].ops, "getMe") /\ reqs[j].identity.attached
    /\ Done(reqs[j]) /\ reqs[j].resp.success

\* Request i takes a step in which its registration succeeds.
RegisterSucceeds(i) ==
  /\ reqs[i].route = "register"
  /\ reqs[i].pc = "create"
  /\ reqs'[i].resp.status = 201

\* C28: a step of a request modifies the user store only when it is a
\* successful register, which adds exactly one user whose email is the
\* request's; every other step of register, login, getProfile,
\* authenticate and optionalAuth, among them rejections by validation and
\* by Conflict, leaves the store as it was.
C28_StoreFrame ==
  [][\A i \in Req :
       reqs'[i] # reqs[i]
         => IF RegisterSucceeds(i)
            THEN /\ users \subseteq users'
                 /\ Cardinality(users' \ users) = 1
                 /\ \A u \in users' \ users : u.email = reqs[i].body.email
            ELSE users' = users]_vars

\* One registration added its user; another, for an email already taken,
\* was refused and added nothing.
C28_Witness ==
  \E i, j \in Req :
    /\ reqs[i].route = "register" /\ Done(reqs[i]) /\ reqs[i].resp.status = 201
    /\ \E u \in users : u.email = reqs[i].body.email /\ u.id = reqs[i].resp.user.id
    /\ reqs[j].route = "register" /\ Done(reqs[j]) /\ reqs[j].resp.status = 409
    /\ Cardinality(users) = 1

\* ------------------------------------------------------------- the process
\* Bound: the shutdown triggers the process receives.
MaxTriggers == 2

\* What starts gracefulShutdown: the two signals and the two error events.
ShutdownTriggers == {"SIGTERM", "SIGINT", "UNCAUGHT_EXCEPTION", "UNHANDLED_REJECTION"}

\* The store connection has been established (and maybe closed since).
Established(p) == p.db \in {"connected", "disconnecting", "disconnected", "disconnect failed"}

\* disconnectDatabase has returned: closed, or the failure logged.
Disconnected(p) == p.db \in {"disconnected", "disconnect failed"}

\* The requests the server is still working on; each holds its connection.
Ongoing == {i \in Req : reqs[i].pc \notin {"idle", "done"}}

\* Faulty variant: a failed connection is logged and startup goes on.
connectDatabaseSwallowing(p, outcome) ==
  IF outcome = "resolved"
  THEN [p EXCEPT !.db = "connected"]
  ELSE [p EXCEPT !.db = "failed"]

\* connectDatabase: $connect, and process.exit(1) when it fails.
connectDatabase(p, outcome) ==
  IF outcome = "resolved"
  THEN [p EXCEPT !.db = "connected"]
  ELSE [p EXCEPT !.db = "failed", !.exit = 1]

\* startServer: after the connection, app.listen and the handlers of the
\* signals and error events.
startServer(p, outcome) ==
  LET q == connectDatabase(p, outcome)
  IN  IF q.exit = Running THEN [q EXCEPT !.phase = "listening"] ELSE q

\* Faulty variant: gracefulShutdown without the forced-shutdown timer.
gracefulShutdownNoTimer(p, signal) ==
  [p EXCEPT !.phase = IF @ = "listening" THEN "closing" ELSE @,
            !.signal = signal,
            !.triggers = @ + 1,
            !.closeCbs = @ + 1]

\* gracefulShutdown: server.close(callback) and setTimeout(..., 10000).
\* The server stops listening; the callback waits for the 'close' event.
gracefulShutdown(p, signal) ==
  [p EXCEPT !.phase = IF @ = "listening" THEN "closing" ELSE @,
            !.signal = signal,
            !.triggers = @ + 1,
            !.closeCbs = @ + 1,
            !.timers = @ + 1]

\* Faulty variant: the server emits 'close' with requests still going on.
DrainedAlways == TRUE

\* The 'close' event waits for the connections of the ongoing requests.
Drained == Ongoing = {}

Connect ==
  /\ proc.exit = Running
  /\ proc.phase = "connecting"
  /\ \E outcome \in {"resolved", "rejected"} : proc' = startServer(proc, outcome)
  /\ UNCHANGED <<users, nextId, now, nodeEnv, reqs>>

\* A signal or an error event arrives once its handler is registered.
Trigger ==
  /\ proc.exit = Running
  /\ proc.phase \in {"listening", "closing", "closed"}
  /\ proc.triggers < MaxTriggers
  /\ \E signal \in ShutdownTriggers : proc' = gracefulShutdown(proc, signal)
  /\ UNCHANGED <<users, nextId, now, nodeEnv, reqs>>

\* The server emits 'close': the callbacks of server.close run up to
\* their await of disconnectDatabase.
CloseEmit ==
  /\ proc.exit = Running
  /\ proc.phase \in {"closing", "closed"}
  /\ proc.closeCbs > 0
  /\ Drained
  /\ proc' = [proc EXCEPT !.phase = "closed", !.closeCbs = 0,
                          !.db = IF @ = "connected" THEN "disconnecting" ELSE @]
  /\ UNCHANGED <<users, nextId, now, nodeEnv, reqs>>

\* disconnectDatabase returns, $disconnect having worked or not, and the
\* callback calls process.exit(0).
DisconnectSettle ==
  /\ proc.exit = Running
  /\ proc.db = "disconnecting"
  /\ \E outcome \in {"resolved", "rejected"} :
       proc' = [proc EXCEPT !.db = IF outcome = "resolved" THEN "disconnected"
                                   ELSE "disconnect failed",
                            !.exit = 0]
  /\ UNCHANGED <<users, nextId, now, nodeEnv, reqs>>

\* The forced-shutdown timer fires: process.exit(1).
TimerFires ==
  /\ proc.exit = Running
  /\ proc.timers > 0
  /\ proc' = [proc EXCEPT !.exit = 1, !.forced = TRUE]
  /\ UNCHANGED <<users, nextId, now, nodeEnv, reqs>>

\* The listening server accepts a request.
Accept(i) ==
  /\ proc.exit = Running
  /\ proc.phase = "listening"
  /\ HealthProbe(i)

\* A request the server accepted goes on while the process lives.
Finish(i) ==
  /\ proc.exit = Running
  /\ HealthAnswer(i)

InitLife ==
  /\ users = {}
  /\ nextId = 1
  /\ now = 0
  /\ nodeEnv \in NodeEnvs
  /\ reqs = [i \in Req |-> NoReq]
  /\ proc = Starting

NextLife ==
  \/ Connect
  \/ Trigger
  \/ CloseEmit
  \/ DisconnectSettle
  \/ TimerFires
  \/ \E i \in Req : Accept(i)
  \/ \E i \in Req : Finish(i)

SpecLife == InitLife /\ [][NextLife]_vars

\* C24: after SIGTERM or SIGINT the shutdown goes in order: the server
\* stops accepting requests and lets the ongoing ones finish, then the
\* store connection is closed, then the process exits; it exits with
\* code 0 only after the server has closed and the disconnect has completed.
C24_ShutdownInOrder ==
  /\ [](/\ proc.triggers > 0 => proc.phase \in {"closing", "closed"}
        /\ proc.phase = "closed" => proc.triggers > 0
        /\ proc.db \in {"disconnecting", "disconnected", "disconnect failed"}
             => proc.phase = "closed"
        /\ proc.exit = 0 => proc.phase = "closed" /\ Disconnected(proc))
  /\ [][/\ proc.triggers > 0 => \A i \in Req : reqs[i].pc = "idle" => reqs'[i].pc = "idle"
        /\ proc.phase # "closed" /\ proc'.phase = "closed" => Ongoing = {}
        /\ proc.phase = "closed" => Ongoing' = {}]_vars

\* After SIGTERM the server closed, a request it had accepted having been
\* answered, the store was disconnected and the process exited with 0.
C24_Witness ==
  /\ proc.signal = "SIGTERM"
  /\ proc.exit = 0
  /\ proc.db = "disconnected"
  /\ \E i \in Req : Done(reqs[i]) /\ reqs[i].resp.status = 200

\* The timer set by setTimeout fires unless the process exits first.
SpecLifeFair == SpecLife /\ WF_vars(TimerFires)

C30_ListenAfterConnect ==
  /\ proc.phase # "connecting" => Established(proc)
  /\ (\E i \in Req : reqs[i].pc # "idle") => Established(proc)
  /\ proc.db = "none" => proc.phase = "connecting" /\ proc.exit = Running
  /\ proc.db = "failed"
       => /\ proc.exit = 1
          /\ proc.phase = "connecting"
          /\ \A i \in Req : reqs[i].pc = "idle"

\* The connection was established and the listening server accepted a request.
C30_Witness ==
  /\ proc.phase = "listening"
  /\ proc.db = "connected"
  /\ \E i \in Req : reqs[i].pc = "probe"

=============================================================================
